---- MODULE Spec2Model ----
(***************************************************************************)
(* Model of the AVL tree of src/src/avl.rs: the BSTNode enum, its          *)
(* recursive methods and the BST handle with its size field.  A tree is a  *)
(* record; each method is an operator computed the way the Rust code       *)
(* computes it, a panic being the value Panic(site) that every caller       *)
(* propagates.  Each public method of BST is one action.                    *)
(***************************************************************************)
EXTENDS Integers, FiniteSets, Sequences, TLC

\* Bounds of the model.
MaxVal == 8         \* values are 1..MaxVal
MaxSize == 8        \* insert is only tried while size < MaxSize

Values == 1..MaxVal

----------------------------------------------------------------------------
\* enum BSTNode: Nil | Node { left, right, height, value }
Nil == [kind |-> "Nil"]

Node(l, r, h, v) ==
    [kind |-> "Node", left |-> l, right |-> r, height |-> h, value |-> v]

\* The outcome of a panic!() at the named site.
Panic(site) == [kind |-> "Panic", site |-> site]

IsNode(t) == t.kind = "Node"
IsNil(t) == t.kind = "Nil"
IsPanic(t) == t.kind = "Panic"

\* Assignment through a &mut to a child slot; a panic while computing the
\* new child unwinds through the parent.
SetLeft(t, l) == IF IsPanic(t) THEN t ELSE IF IsPanic(l) THEN l ELSE [t EXCEPT !.left = l]
SetRight(t, r) == IF IsPanic(t) THEN t ELSE IF IsPanic(r) THEN r ELSE [t EXCEPT !.right = r]

max(a, b) == IF a >= b THEN a ELSE b
abs_diff(a, b) == IF a >= b THEN a - b ELSE b - a

\* BSTNode::new
new(value) == Node(Nil, Nil, 0, value)

\* contains with the two descents exchanged.
RECURSIVE contains_swapped(_, _)
contains_swapped(self, value) ==
    IF IsNil(self) THEN FALSE
    ELSE IF value = self.value THEN TRUE
    ELSE IF value > self.value THEN contains_swapped(self.left, value)
    ELSE contains_swapped(self.right, value)

RECURSIVE contains(_, _)
contains(self, value) ==
    IF IsNil(self) THEN FALSE
    ELSE IF value = self.value THEN TRUE
    ELSE IF value > self.value THEN contains(self.right, value)
    ELSE contains(self.left, value)

get_height(self) == IF IsNode(self) THEN self.height ELSE -1

\* is_imbalanced with the threshold one too low.
is_imbalanced_off_by_one(self) ==
    IF IsNode(self)
    THEN abs_diff(get_height(self.left), get_height(self.right)) > 0
    ELSE FALSE

is_imbalanced(self) ==
    IF IsNode(self)
    THEN abs_diff(get_height(self.left), get_height(self.right)) > 1
    ELSE FALSE

left_heavy(self) ==
    IF IsNode(self) THEN get_height(self.left) > get_height(self.right) ELSE FALSE

right_heavy(self) ==
    IF IsNode(self) THEN get_height(self.right) > get_height(self.left) ELSE FALSE

get_left(self) ==
    IF IsPanic(self) THEN self
    ELSE IF IsNil(self) THEN Panic("get_left") ELSE self.left

get_right(self) ==
    IF IsPanic(self) THEN self
    ELSE IF IsNil(self) THEN Panic("get_right") ELSE self.right

update_height(self) ==
    IF IsNode(self)
    THEN [self EXCEPT !.height = max(get_height(self.left), get_height(self.right)) + 1]
    ELSE self

\* rotate_left that swaps the old top into the right slot of the new top.
rotate_left_wrong_side(self) ==
    LET rl == get_left(get_right(self))
    IN IF IsPanic(rl) THEN rl
       ELSE LET right == [self.right EXCEPT !.left = Nil]
                s == [self EXCEPT !.right = rl]
                top == [right EXCEPT !.right = update_height(s)]
            IN update_height(top)

rotate_left(self) ==
    LET rl == get_left(get_right(self))
    IN IF IsPanic(rl) THEN rl
       ELSE LET right == [self.right EXCEPT !.left = Nil]   \* take() leaves Nil behind
                s == [self EXCEPT !.right = rl]             \* replace(self.get_right(), rl)
                top == [right EXCEPT !.left = update_height(s)]
            IN update_height(top)

\* rotate_right that forgets to recompute the height of the node moved down.
rotate_right_stale_height(self) ==
    LET lr == get_right(get_left(self))
    IN IF IsPanic(lr) THEN lr
       ELSE LET left == [self.left EXCEPT !.right = Nil]
                s == [self EXCEPT !.left = lr]
                top == [left EXCEPT !.right = s]
            IN update_height(top)

rotate_right(self) ==
    LET lr == get_right(get_left(self))
    IN IF IsPanic(lr) THEN lr
       ELSE LET left == [self.left EXCEPT !.right = Nil]
                s == [self EXCEPT !.left = lr]
                top == [left EXCEPT !.right = update_height(s)]
            IN update_height(top)

\* Which branch of rebalance a node takes.
rebalance_case(self) ==
    IF ~is_imbalanced(self) THEN "none"
    ELSE IF left_heavy(self)
         THEN IF left_heavy(get_left(self)) THEN "right" ELSE "left-right"
         ELSE IF right_heavy(get_right(self)) THEN "left" ELSE "right-left"

rebalance(self) ==
    IF ~is_imbalanced(self) THEN self
    ELSE IF left_heavy(self)
         THEN LET left == get_left(self)
              IN IF left_heavy(left)
                 THEN rotate_right(self)
                 ELSE rotate_right(SetLeft(self, rotate_left(left)))
         ELSE LET right == get_right(self)
              IN IF right_heavy(right)
                 THEN rotate_left(self)
                 ELSE rotate_left(SetRight(self, rotate_right(right)))

\* The record of one call of rebalance that found its node imbalanced.
rebalance_call(self) ==
    IF is_imbalanced(self)
    THEN {[node |-> self, rotation |-> rebalance_case(self)]}
    ELSE {}

\* Results of the recursive methods: the node left in the slot, the value
\* returned, and the rebalance calls made on the way back up.
Result(n, r, c) == [node |-> n, ret |-> r, calls |-> c]

RECURSIVE insert_balanced(_, _)
insert_balanced(self, new_value) ==
    IF IsNil(self)
    THEN LET n == new(new_value)
         IN Result(rebalance(n), TRUE, rebalance_call(n))
    ELSE IF new_value = self.value
    THEN Result(self, FALSE, {})                       \* no-op
    ELSE LET sub == IF new_value > self.value
                    THEN insert_balanced(self.right, new_value)
                    ELSE insert_balanced(self.left, new_value)
             \* the value returned by the recursive call is dropped
             grown == IF new_value > self.value
                      THEN SetRight(self, sub.node)
                      ELSE SetLeft(self, sub.node)
             updated == update_height(grown)
         IN Result(rebalance(updated), TRUE, sub.calls \cup rebalance_call(updated))

\* take_smallest_in_subtree: node is what stays in the slot, smallest the
\* node handed back to the caller.
RECURSIVE take_smallest_in_subtree(_)
take_smallest_in_subtree(self) ==
    IF IsNil(self)
    THEN [node |-> Panic("take_smallest_in_subtree"), smallest |-> Nil, calls |-> {}]
    ELSE IF IsNil(self.left)
    THEN LET right_child == get_right(self)
             smallest_node == [self EXCEPT !.right = Nil]
         IN [node |-> right_child, smallest |-> smallest_node, calls |-> {}]
    ELSE LET sub == take_smallest_in_subtree(self.left)
             updated == update_height(SetLeft(self, sub.node))
         IN [node |-> rebalance(updated), smallest |-> sub.smallest,
             calls |-> sub.calls \cup rebalance_call(updated)]

RECURSIVE delete_balanced(_, _)
delete_balanced(self, value) ==
    IF IsNil(self) THEN Result(self, FALSE, {})
    ELSE LET has_left == ~IsNil(self.left)
             has_right == ~IsNil(self.right)
             sub == IF value < self.value THEN delete_balanced(self.left, value)
                    ELSE IF value > self.value THEN delete_balanced(self.right, value)
                    ELSE IF has_left /\ has_right
                    THEN LET taken == take_smallest_in_subtree(self.right)
                         IN Result(SetRight([self EXCEPT !.value = taken.smallest.value],
                                            taken.node),
                                   TRUE, taken.calls)
                    ELSE IF has_right THEN Result(get_right(self), TRUE, {})
                    ELSE IF has_left THEN Result(get_left(self), TRUE, {})
                    ELSE Result(Nil, TRUE, {})
             after == IF value < self.value THEN SetLeft(self, sub.node)
                      ELSE IF value > self.value THEN SetRight(self, sub.node)
                      ELSE sub.node
             deleted == sub.ret
         IN IF deleted
            THEN LET updated == update_height(after)
                 IN Result(rebalance(updated), TRUE, sub.calls \cup rebalance_call(updated))
            ELSE Result(after, FALSE, sub.calls)

----------------------------------------------------------------------------
\* struct BST { root, size } and its public methods.  Each returns the tree
\* after the call together with the value returned and the rebalance calls.
Outcome(r, s, b, c) == [root |-> r, size |-> s, ret |-> b, calls |-> c]

BST_new == [root |-> Nil, size |-> 0]

BST_contains(bst, value) == contains(bst.root, value)

BST_insert(bst, value) ==
    LET res == insert_balanced(bst.root, value)
        inserted == res.ret
    IN Outcome(res.node, IF inserted THEN bst.size + 1 ELSE bst.size, inserted, res.calls)

\* delete that decrements size whatever delete_balanced returned.
BST_delete_always_decrements(bst, value) ==
    LET res == delete_balanced(bst.root, value)
        deleted == res.ret
    IN IF ~IsPanic(res.node) /\ bst.size = 0
       THEN Outcome(Panic("size underflow"), bst.size, deleted, res.calls)
       ELSE Outcome(res.node, bst.size - 1, deleted, res.calls)

\* size is a u32: a decrement at 0 is the overflow panic of a checked build.
BST_delete(bst, value) ==
    LET res == delete_balanced(bst.root, value)
        deleted == res.ret
    IN IF deleted /\ ~IsPanic(res.node) /\ bst.size = 0
       THEN Outcome(Panic("size underflow"), bst.size, deleted, res.calls)
       ELSE Outcome(res.node, IF deleted THEN bst.size - 1 ELSE bst.size, deleted, res.calls)

----------------------------------------------------------------------------
\* The state: the tree handle, and a record of the last call made on it.
VARIABLES root, size, op, arg, ret, calls, old_root, old_size, stored, aborted

vars == <<root, size, op, arg, ret, calls, old_root, old_size, stored, aborted>>

Init ==
    /\ root = BST_new.root
    /\ size = BST_new.size
    /\ op = "new"
    /\ arg = 0
    /\ ret = FALSE
    /\ calls = {}
    /\ old_root = Nil
    /\ old_size = 0
    /\ stored = {}
    /\ aborted = "none"

\* Commit the outcome of a mutating call; a panic ends the program.
Commit(out) ==
    /\ old_root' = root
    /\ old_size' = size
    /\ ret' = out.ret
    /\ calls' = out.calls
    /\ IF IsPanic(out.root)
       THEN /\ aborted' = out.root.site
            /\ UNCHANGED <<root, size>>
       ELSE /\ aborted' = "none"
            /\ root' = out.root
            /\ size' = out.size

New ==
    /\ aborted = "none"
    /\ op' = "new"
    /\ arg' = 0
    /\ Commit(Outcome(BST_new.root, BST_new.size, FALSE, {}))
    /\ stored' = {}

Contains ==
    /\ aborted = "none"
    /\ \E value \in Values :
        /\ op' = "contains"
        /\ arg' = value
        /\ Commit(Outcome(root, size, BST_contains([root |-> root, size |-> size], value), {}))
        /\ UNCHANGED stored

Insert ==
    /\ aborted = "none"
    /\ size < MaxSize
    /\ \E value \in Values :
        /\ op' = "insert"
        /\ arg' = value
        /\ Commit(BST_insert([root |-> root, size |-> size], value))
        /\ stored' = stored \cup {value}

Delete ==
    /\ aborted = "none"
    /\ \E value \in Values :
        /\ op' = "delete"
        /\ arg' = value
        /\ Commit(BST_delete([root |-> root, size |-> size], value))
        /\ stored' = stored \ {value}

Next == New \/ Contains \/ Insert \/ Delete

Spec == Init /\ [][Next]_vars

----------------------------------------------------------------------------
\* What the claims speak of, defined on the tree itself.
RECURSIVE ValuesOf(_)
ValuesOf(t) ==
    IF IsNode(t) THEN ValuesOf(t.left) \cup {t.value} \cup ValuesOf(t.right) ELSE {}

RECURSIVE NodeCount(_)
NodeCount(t) ==
    IF IsNode(t) THEN NodeCount(t.left) + 1 + NodeCount(t.right) ELSE 0

RECURSIVE Height(_)
Height(t) ==
    IF IsNode(t) THEN 1 + max(Height(t.left), Height(t.right)) ELSE -1

RECURSIVE InOrder(_)
InOrder(t) ==
    IF IsNode(t) THEN InOrder(t.left) \o <<t.value>> \o InOrder(t.right) ELSE <<>>

RECURSIVE Balanced(_)
Balanced(t) ==
    IF IsNode(t)
    THEN /\ abs_diff(Height(t.left), Height(t.right)) <= 1
         /\ Balanced(t.left)
         /\ Balanced(t.right)
    ELSE TRUE

RECURSIVE HeightsCached(_)
HeightsCached(t) ==
    IF IsNode(t)
    THEN /\ t.height = Height(t)
         /\ HeightsCached(t.left)
         /\ HeightsCached(t.right)
    ELSE TRUE

RECURSIVE Ordered(_)
Ordered(t) ==
    IF IsNode(t)
    THEN /\ \A x \in ValuesOf(t.left) : x < t.value
         /\ \A x \in ValuesOf(t.right) : x > t.value
         /\ Ordered(t.left)
         /\ Ordered(t.right)
    ELSE TRUE

StrictlyIncreasing(s) == \A i \in 1..(Len(s) - 1) : s[i] < s[i + 1]

\* The subtree of t whose root holds v, found by value, Nil if none.
RECURSIVE NodeOf(_, _)
NodeOf(t, v) ==
    IF ~IsNode(t) THEN Nil
    ELSE IF t.value = v THEN t
    ELSE IF IsNode(NodeOf(t.left, v)) THEN NodeOf(t.left, v)
    ELSE NodeOf(t.right, v)

Mutating == op \in {"insert", "delete"}

----------------------------------------------------------------------------
HasTwoChildren(t, v) ==
    LET n == NodeOf(t, v) IN IsNode(n) /\ IsNode(n.left) /\ IsNode(n.right)

HasOneChild(t, v) ==
    LET n == NodeOf(t, v) IN IsNode(n) /\ (IsNode(n.left) # IsNode(n.right))

----------------------------------------------------------------------------
\* C1: insert(v) returns true if and only if v was not stored in the tree
\* before the call; a duplicate returns false at the root and at any depth.
C1_InsertReturnsTrueIffNew ==
    op = "insert" => (ret <=> arg \notin ValuesOf(old_root))

\* C2: after every public operation the size field equals the number of
\* nodes reachable from root.
C2_SizeIsNodeCount == size = NodeCount(root)

\* C3: after every insert or delete, every node has
\* |height(left) - height(right)| <= 1, an absent child having height -1.
C3_AVLBalance == Balanced(root)

\* C4: after every insert or delete the in-order traversal is strictly
\* increasing: at every node the left subtree holds smaller and the right
\* subtree larger values, so no value is stored twice.
C4_BSTOrder == Ordered(root) /\ StrictlyIncreasing(InOrder(root))

\* C4 witness: a delete of a node with two children (successor replacement)
\* that also rotated.
C4_Witness ==
    /\ op = "delete" /\ ret
    /\ HasTwoChildren(old_root, arg)
    /\ calls # {}

\* C5: the tree refines a set: contains(v) is true exactly for the values
\* inserted and not deleted since, and a contains call changes nothing.
C5_RefinesSet ==
    /\ \A v \in Values : contains(root, v) <=> v \in stored
    /\ op = "contains" =>
         /\ ret = (arg \in stored)
         /\ root = old_root
         /\ size = old_size

\* C5 witness: right after a successful delete the deleted value is no
\* longer found while another stored value still is.
C5_Witness ==
    /\ op = "delete" /\ ret
    /\ ~contains(root, arg)
    /\ \E v \in stored : contains(root, v)
    /\ NodeCount(root) >= 3

\* C6: delete(v) returns true if and only if v was stored before the call;
\* on a missing value it returns false and leaves shape, values, cached
\* heights and size unchanged, with no rebalance on the search path.
C6_DeleteMissingIsNoOp ==
    op = "delete" =>
      /\ ret <=> arg \in ValuesOf(old_root)
      /\ ~ret => root = old_root /\ size = old_size /\ calls = {}

\* C6 witness: a delete of a missing value searched for two levels down.
C6_Witness ==
    /\ op = "delete" /\ ~ret
    /\ Height(old_root) >= 2
    /\ arg \notin ValuesOf(old_root)

\* C7: after every insert or delete every cached height equals the
\* recursively defined height of its subtree.
C7_HeightCache == HeightsCached(root)

\* C7 witness: an operation that did a double rotation on a tree of height
\* at least 2.
C7_Witness ==
    /\ Mutating /\ ret
    /\ \E c \in calls : c.rotation \in {"left-right", "right-left"}
    /\ Height(root) >= 2

C9_SingleRotationWhenChildBalanced ==
    \A c \in calls :
      LET n == c.node IN
      /\ (/\ get_height(n.left) - get_height(n.right) > 1
          /\ get_height(n.left.left) >= get_height(n.left.right))
         => c.rotation = "right"
      /\ (/\ get_height(n.left) - get_height(n.right) < -1
          /\ get_height(n.right.right) >= get_height(n.right.left))
         => c.rotation = "left"

\* C10: whenever rebalance finds its node imbalanced, the imbalance is
\* exactly 2 and both children of the node are balanced AVL subtrees.
C10_ImbalanceIsExactlyTwo ==
    \A c \in calls :
      LET n == c.node IN
      /\ abs_diff(Height(n.left), Height(n.right)) = 2
      /\ Balanced(n.left)
      /\ Balanced(n.right)
====
